---------------------------- MODULE Spec2Model ----------------------------
(***************************************************************************)
(* Harmonic summation in ascending and descending order with float and     *)
(* double accumulators (hw1d.cpp, main).                                    *)
(*                                                                         *)
(* Floating-point values are modelled exactly.  A magnitude is a natural   *)
(* number counted in units of 2^-FracBits and written in base 2^LimbBits   *)
(* as a sequence of limbs, least significant first and without leading     *)
(* zero limbs, because a 53-bit significand does not fit the integers of   *)
(* the model checker.  A value is a record [neg, mag].  Every IEEE-754      *)
(* operation of the program is the exact operation followed by rounding to *)
(* nearest, ties to even, to the significand width of its type             *)
(* (FLT_EVAL_METHOD 0: float is binary32, double is binary64).  The        *)
(* exponent range is not modelled: the values of this program lie between  *)
(* 2^-59 and 8, far from overflow and underflow.                           *)
(***************************************************************************)
EXTENDS Integers, Sequences, FiniteSets

VARIABLES pc, i, f1, f2, dub1, dub2, terms, out, ret

vars == <<pc, i, f1, f2, dub1, dub2, terms, out, ret>>

---------------------------------------------------------------------------
(* Resolution of the fixed-point representation and significand widths.    *)

\* Magnitudes are counted in units of 2^-FracBits.
FracBits == 59

\* Magnitudes are written in base 2^LimbBits.
LimbBits == 15

\* Significand width of float (binary32), the type of f1 and f2.
FloatBits == 24

\* Mutant of DoubleBits: dub1 and dub2 declared float, and the term 1.0f / i.
DoubleBitsAsFloat == FloatBits

\* Significand width of double (binary64), the type of dub1, dub2 and 1.0.
DoubleBits == 53

---------------------------------------------------------------------------
(* Natural numbers as sequences of limbs.                                  *)

Base == 2^LimbBits

Max(S) == CHOOSE x \in S : \A y \in S : y <= x

Limb(a, k) == IF k \in 1..Len(a) THEN a[k] ELSE 0

\* a without its high-order zero limbs: the canonical form of a number.
Norm(a) ==
    LET S == {k \in 1..Len(a) : a[k] # 0}
    IN  IF S = {} THEN <<>> ELSE SubSeq(a, 1, Max(S))

\* The carry into limb k of a + b: some lower limb overflows and every limb
\* between passes the carry on.
Carry(a, b, k) ==
    IF \E j \in 1..(k - 1) :
           /\ Limb(a, j) + Limb(b, j) >= Base
           /\ \A m \in (j + 1)..(k - 1) : Limb(a, m) + Limb(b, m) = Base - 1
    THEN 1 ELSE 0

\* a + b
BAdd(a, b) ==
    LET n == (IF Len(a) > Len(b) THEN Len(a) ELSE Len(b)) + 1
    IN  Norm([k \in 1..n |-> (Limb(a, k) + Limb(b, k) + Carry(a, b, k)) % Base])

\* The borrow from limb k of a - b.
Borrow(a, b, k) ==
    IF \E j \in 1..(k - 1) :
           /\ Limb(a, j) < Limb(b, j)
           /\ \A m \in (j + 1)..(k - 1) : Limb(a, m) = Limb(b, m)
    THEN 1 ELSE 0

\* a - b, for a >= b
BSub(a, b) ==
    Norm([k \in 1..Len(a) |->
             (Base + Limb(a, k) - Limb(b, k) - Borrow(a, b, k)) % Base])

\* a < b
BLess(a, b) ==
    LET n == IF Len(a) > Len(b) THEN Len(a) ELSE Len(b)
        D == {k \in 1..n : Limb(a, k) # Limb(b, k)}
    IN  D # {} /\ Limb(a, Max(D)) < Limb(b, Max(D))

\* a * 2^n
ShiftLeft(a, n) ==
    LET q == n \div LimbBits
        r == n % LimbBits
    IN  Norm([k \in 1..(Len(a) + q + 1) |->
                 IF k <= q
                 THEN 0
                 ELSE (Limb(a, k - q) % 2^(LimbBits - r)) * 2^r
                          + Limb(a, k - q - 1) \div 2^(LimbBits - r)])

\* floor(a / 2^n)
ShiftRight(a, n) ==
    LET q == n \div LimbBits
        r == n % LimbBits
    IN  IF Len(a) <= q
        THEN <<>>
        ELSE Norm([k \in 1..(Len(a) - q) |->
                      Limb(a, k + q) \div 2^r
                          + (Limb(a, k + q + 1) % 2^r) * 2^(LimbBits - r)])

\* Number of bits of the natural number n of the integers (0 for 0).
BitLen(n) == CHOOSE b \in 0..31 : (b = 0 \/ 2^(b - 1) <= n) /\ (b = 31 \/ n < 2^b)

\* Number of bits of a.
BitLength(a) ==
    IF a = <<>> THEN 0 ELSE (Len(a) - 1) * LimbBits + BitLen(a[Len(a)])

\* Bit k of a; bit 1 is the least significant.
BitAt(a, k) == (Limb(a, (k - 1) \div LimbBits + 1) \div 2^((k - 1) % LimbBits)) % 2

\* The bits 1..n of a are all 0.
LowBitsZero(a, n) ==
    /\ \A k \in 1..(n \div LimbBits) : Limb(a, k) = 0
    /\ Limb(a, n \div LimbBits + 1) % 2^(n % LimbBits) = 0

\* The natural number n of the integers as a magnitude in units of 1.
IntLimbs(n) == Norm(<<n % Base, (n \div Base) % Base, (n \div Base) \div Base>>)

\* a * n for 0 <= n <= 2^15: every limb is multiplied, and the parts of the
\* products that exceed a limb are added one limb higher.
MulInt(a, n) ==
    BAdd([k \in 1..Len(a) |-> (a[k] * n) % Base],
         <<0>> \o [k \in 1..Len(a) |-> (a[k] * n) \div Base])

\* 2^e mod d, by repeated squaring (d small enough for the integers).
RECURSIVE Pow2Mod(_, _)
Pow2Mod(e, d) ==
    IF e = 0
    THEN 1 % d
    ELSE LET h == Pow2Mod(e \div 2, d)
         IN  (h * h * (IF e % 2 = 1 THEN 2 ELSE 1)) % d

\* floor(2^t / d) and the remainder 2^t - d * floor(2^t / d), for
\* 1 <= d <= 2^15, as long division gives them: limb k of the quotient is
\* floor(2^e / d) mod Base for e = t - LimbBits * (k - 1), which is
\* floor(r * Base / d) for the remainder r of 2^(e - LimbBits).
DivPow2(t, d) ==
    [q |-> Norm([k \in 1..(t \div LimbBits + 1) |->
                    LET e == t - LimbBits * (k - 1)
                    IN  IF e < LimbBits
                        THEN (2^e \div d) % Base
                        ELSE (Pow2Mod(e - LimbBits, d) * Base) \div d]),
     r |-> Pow2Mod(t, d)]

---------------------------------------------------------------------------
(* IEEE-754 rounding and the operations the program uses.                  *)

\* a + (a fraction of a unit that is non-zero iff sticky), rounded to p
\* significant bits, to nearest, ties to even.
RoundSig(a, sticky, p) ==
    LET d == BitLength(a) - p
    IN  IF d <= 0
        THEN a
        ELSE LET kept == ShiftRight(a, d)
                 low  == sticky \/ ~LowBitsZero(a, d - 1)
                 up   == BitAt(a, d) = 1 /\ (low \/ BitAt(a, d + 1) = 1)
             IN  ShiftLeft(IF up THEN BAdd(kept, <<1>>) ELSE kept, d)

Zero == [neg |-> FALSE, mag |-> <<>>]

MkVal(neg, mag) == [neg |-> neg /\ mag # <<>>, mag |-> mag]

Negate(x) == MkVal(~x.neg, x.mag)

\* x + y, exactly.
ExactAdd(x, y) ==
    IF x.neg = y.neg
    THEN MkVal(x.neg, BAdd(x.mag, y.mag))
    ELSE IF BLess(x.mag, y.mag)
         THEN MkVal(y.neg, BSub(y.mag, x.mag))
         ELSE MkVal(x.neg, BSub(x.mag, y.mag))

RoundVal(x, p) == MkVal(x.neg, RoundSig(x.mag, FALSE, p))

\* double + double
DoubleAdd(x, y) == RoundVal(ExactAdd(x, y), DoubleBits)

\* double - double
DoubleSub(x, y) == RoundVal(ExactAdd(x, Negate(y)), DoubleBits)

\* float - float
FloatSub(x, y) == RoundVal(ExactAdd(x, Negate(y)), FloatBits)

\* The conversion of a float operand to double: every binary32 value is a
\* binary64 value, so the value is kept.
FloatToDouble(x) == x

\* The conversion of a double to float on assignment to a float object.
DoubleToFloat(x) == RoundVal(x, FloatBits)

\* Mutant of OneOver: the integer division 1 / n, which is 1 for n = 1 and
\* 0 for every larger n.
OneOverIntegerDivision(n) ==
    IF n = 1 THEN [neg |-> FALSE, mag |-> ShiftLeft(<<1>>, FracBits)]
             ELSE [neg |-> FALSE, mag |-> <<>>]

\* 1.0 / n in double, n an int converted to double (n >= 1): the quotient
\* is taken with enough bits below the significand to round correctly.
OneOver(n) ==
    LET t   == DoubleBits + 1 + BitLen(n)
        res == DivPow2(t, n)
        m   == RoundSig(res.q, res.r # 0, DoubleBits)
    IN  MkVal(FALSE, IF t >= FracBits THEN ShiftRight(m, t - FracBits)
                                      ELSE ShiftLeft(m, FracBits - t))

\* 1.0f / n in float: the quotient rounded once, to the float significand.
\* The program does not use it; it is what a float term would be.
FloatOneOver(n) ==
    LET t   == FloatBits + 1 + BitLen(n)
        res == DivPow2(t, n)
        m   == RoundSig(res.q, res.r # 0, FloatBits)
    IN  MkVal(FALSE, IF t >= FracBits THEN ShiftRight(m, t - FracBits)
                                      ELSE ShiftLeft(m, FracBits - t))

\* float + float, likewise.
FloatAdd(x, y) == RoundVal(ExactAdd(x, y), FloatBits)

\* Mutant of FloatAccumulate: the term and the addition in float (1.0f / n).
FloatAccumulateInFloat(acc, n) == FloatAdd(acc, FloatOneOver(n))

\* acc += 1.0 / n for a float acc: float + double is a double addition, and
\* the sum is converted to float when stored.
FloatAccumulate(acc, n) == DoubleToFloat(DoubleAdd(FloatToDouble(acc), OneOver(n)))

\* acc += 1.0 / n for a double acc.
DoubleAccumulate(acc, n) == DoubleAdd(acc, OneOver(n))

---------------------------------------------------------------------------
(* operator<< of a floating-point value on cout: the default format of an  *)
(* ostream, which is printf's %g with precision 6.  The decimal digits are *)
(* those of the exact binary value, rounded to nearest, ties to even.      *)
(* Only magnitudes below 10 are formatted (the sums stay below 6).         *)

\* Default precision of an ostream.
Precision == 6

\* a * 10^k, four decimal digits at a time.
RECURSIVE TimesPow10(_, _)
TimesPow10(a, k) ==
    IF k <= 4 THEN MulInt(a, 10^k) ELSE TimesPow10(MulInt(a, 10^4), k - 4)

\* The least k with a * 10^k >= 1, for a magnitude a # 0: a is at least
\* 2^-FracBits, so that FracBits is such a k.
ScaleExp(a) ==
    CHOOSE k \in 0..FracBits :
        /\ BitLength(TimesPow10(a, k)) > FracBits
        /\ k = 0 \/ BitLength(TimesPow10(a, k - 1)) <= FracBits

\* The integer a magnitude of at most two limbs denotes.
ToInt(a) == Limb(a, 1) + Base * Limb(a, 2)

Pow10(k) == 10^k

\* The magnitude a rounded to an integer, to nearest, ties to even.
RoundInt(a) ==
    LET n    == ToInt(ShiftRight(a, FracBits))
        half == BitAt(a, FracBits) = 1
        rest == ~LowBitsZero(a, FracBits - 1)
    IN  IF half /\ (rest \/ n % 2 = 1) THEN n + 1 ELSE n

\* The magnitude a # 0 as n * 10^(x - Precision + 1), n of Precision digits:
\* a >= 2^-FracBits, so that a * 10^FracBits >= 1.
Decimal(a) ==
    LET k == ScaleExp(a)
        n == RoundInt(TimesPow10(a, k + Precision - 1))
    IN  IF n = Pow10(Precision)
        THEN [n |-> Pow10(Precision - 1), x |-> 1 - k]
        ELSE [n |-> n, x |-> 0 - k]

DigitChars == <<"0", "1", "2", "3", "4", "5", "6", "7", "8", "9">>

\* The j-th of the Precision digits of n, as a number and as a character.
DigitAt(n, j) == (n \div Pow10(Precision - j)) % 10

\* The digits from..to of n.
RECURSIVE Digits(_, _, _)
Digits(n, from, to) ==
    IF from > to
    THEN ""
    ELSE DigitChars[DigitAt(n, from) + 1] \o Digits(n, from + 1, to)

RECURSIVE Repeat(_, _)
Repeat(c, k) == IF k <= 0 THEN "" ELSE c \o Repeat(c, k - 1)

\* A natural number in decimal.
RECURSIVE NatStr(_)
NatStr(m) ==
    IF m < 10
    THEN DigitChars[m + 1]
    ELSE NatStr(m \div 10) \o DigitChars[(m % 10) + 1]

\* %g: style e when the decimal exponent x is below -4 or at least the
\* precision, style f otherwise; trailing zeros and a trailing point are
\* removed; the exponent has at least two digits.
FormatMag(a) ==
    LET d    == Decimal(a)
        last == Max({j \in 1..Precision : DigitAt(d.n, j) # 0})
        frac == IF last > 1 THEN "." \o Digits(d.n, 2, last) ELSE ""
        absx == IF d.x < 0 THEN 0 - d.x ELSE d.x
    IN  IF d.x < -4 \/ d.x >= Precision
        THEN Digits(d.n, 1, 1) \o frac \o "e"
                 \o (IF d.x < 0 THEN "-" ELSE "+")
                 \o (IF absx < 10 THEN "0" ELSE "") \o NatStr(absx)
        ELSE IF d.x = 0
             THEN Digits(d.n, 1, 1) \o frac
             ELSE "0." \o Repeat("0", absx - 1) \o Digits(d.n, 1, last)

\* cout << x for a double x (a float x is converted to double, exactly).
FormatG(x) ==
    IF x.mag = <<>>
    THEN "0"
    ELSE (IF x.neg THEN "-" ELSE "") \o FormatMag(x.mag)

---------------------------------------------------------------------------
(* The program.                                                            *)

\* Mutant of ForwardCond: the loop runs once more (i <= 101).
ForwardCondInclusive(n) == n <= 101

\* Mutant of ForwardLimit: the loop stops one iteration early (i < 100).
ForwardLimitOffByOne == 101 - 1

\* Mutant of BackwardStart: the loop starts at 99 and misses the term 1/100.
BackwardStartOffByOne == 100 - 1

\* Mutant of BackwardCond: the loop runs once more, with i = 0 (i >= 0).
BackwardCondInclusive(n) == n >= 0

\* for (int i = 1; i < 101; i++)
ForwardStart == 1
ForwardLimit == 101
ForwardCond(n) == n < ForwardLimit
ForwardNext(n) == n + 1

\* for (int i = 100; i > 0; i--)
BackwardStart == 100
BackwardLimit == 0
BackwardCond(n) == n > BackwardLimit
BackwardNext(n) == n - 1

\* return 0;
ReturnValue == 0

NoTerms == [f1 |-> <<>>, dub1 |-> <<>>, f2 |-> <<>>, dub2 |-> <<>>]

\* Mutant of Init: f1 is declared without an initializer, so that it starts
\* with whatever value its storage holds (here 0.0 or 1.0).
InitUninitialised ==
    /\ pc = "fwd_test"
    /\ i = 1
    /\ f1 \in {[neg |-> FALSE, mag |-> <<>>],
               [neg |-> FALSE, mag |-> ShiftLeft(<<1>>, FracBits)]}
    /\ f2 = [neg |-> FALSE, mag |-> <<>>]
    /\ dub1 = [neg |-> FALSE, mag |-> <<>>]
    /\ dub2 = [neg |-> FALSE, mag |-> <<>>]
    /\ terms = [f1 |-> <<>>, dub1 |-> <<>>, f2 |-> <<>>, dub2 |-> <<>>]
    /\ out = <<>>
    /\ ret = <<>>

\* The state when the forward loop first tests its condition: the four
\* accumulators are 0.0 and the loop variable is 1; nothing is printed.
Init ==
    /\ pc = "fwd_test"
    /\ i = ForwardStart
    /\ f1 = Zero
    /\ f2 = Zero
    /\ dub1 = Zero
    /\ dub2 = Zero
    /\ terms = NoTerms
    /\ out = <<>>
    /\ ret = <<>>

ForwardEnter ==
    /\ pc = "fwd_test"
    /\ ForwardCond(i)
    /\ pc' = "fwd_f1"
    /\ UNCHANGED <<i, f1, f2, dub1, dub2, terms, out, ret>>

\* Mutant of ForwardF1: the statement names f2 instead of f1.
ForwardF1WritesF2 ==
    /\ pc = "fwd_f1"
    /\ f2' = FloatAccumulate(f2, i)
    /\ terms' = [terms EXCEPT !.f2 = Append(@, i)]
    /\ pc' = "fwd_dub1"
    /\ UNCHANGED <<i, f1, dub1, dub2, out, ret>>

\* f1 += 1.0 / i;
ForwardF1 ==
    /\ pc = "fwd_f1"
    /\ f1' = FloatAccumulate(f1, i)
    /\ terms' = [terms EXCEPT !.f1 = Append(@, i)]
    /\ pc' = "fwd_dub1"
    /\ UNCHANGED <<i, f2, dub1, dub2, out, ret>>

\* dub1 += 1.0 / i;
ForwardDub1 ==
    /\ pc = "fwd_dub1"
    /\ dub1' = DoubleAccumulate(dub1, i)
    /\ terms' = [terms EXCEPT !.dub1 = Append(@, i)]
    /\ pc' = "fwd_inc"
    /\ UNCHANGED <<i, f1, f2, dub2, out, ret>>

\* i++
ForwardInc ==
    /\ pc = "fwd_inc"
    /\ i' = ForwardNext(i)
    /\ pc' = "fwd_test"
    /\ UNCHANGED <<f1, f2, dub1, dub2, terms, out, ret>>

\* The forward loop ends; the backward loop declares its own i = 100.
ForwardExit ==
    /\ pc = "fwd_test"
    /\ ~ForwardCond(i)
    /\ i' = BackwardStart
    /\ pc' = "bwd_test"
    /\ UNCHANGED <<f1, f2, dub1, dub2, terms, out, ret>>

BackwardEnter ==
    /\ pc = "bwd_test"
    /\ BackwardCond(i)
    /\ pc' = "bwd_f2"
    /\ UNCHANGED <<i, f1, f2, dub1, dub2, terms, out, ret>>

\* f2 += 1.0 / i;
BackwardF2 ==
    /\ pc = "bwd_f2"
    /\ f2' = FloatAccumulate(f2, i)
    /\ terms' = [terms EXCEPT !.f2 = Append(@, i)]
    /\ pc' = "bwd_dub2"
    /\ UNCHANGED <<i, f1, dub1, dub2, out, ret>>

\* dub2 += 1.0 / i;
BackwardDub2 ==
    /\ pc = "bwd_dub2"
    /\ dub2' = DoubleAccumulate(dub2, i)
    /\ terms' = [terms EXCEPT !.dub2 = Append(@, i)]
    /\ pc' = "bwd_dec"
    /\ UNCHANGED <<i, f1, f2, dub1, out, ret>>

\* i--
BackwardDec ==
    /\ pc = "bwd_dec"
    /\ i' = BackwardNext(i)
    /\ pc' = "bwd_test"
    /\ UNCHANGED <<f1, f2, dub1, dub2, terms, out, ret>>

BackwardExit ==
    /\ pc = "bwd_test"
    /\ ~BackwardCond(i)
    /\ pc' = "print_float"
    /\ UNCHANGED <<i, f1, f2, dub1, dub2, terms, out, ret>>

\* Mutant of FloatDifference: the operands are swapped (f2 - f1).
FloatDifferenceSwapped(a, b) == FloatSub(b, a)

\* f1 - f2, a float subtraction.
FloatDifference(a, b) == FloatSub(a, b)

\* dub1 - dub2, a double subtraction.
DoubleDifference(a, b) == DoubleSub(a, b)

\* cout << "Float forward: " << f1 << ", Float backward: " << f2 << endl;
PrintFloat ==
    /\ pc = "print_float"
    /\ out' = Append(out, "Float forward: " \o FormatG(FloatToDouble(f1))
                          \o ", Float backward: " \o FormatG(FloatToDouble(f2)))
    /\ pc' = "print_double"
    /\ UNCHANGED <<i, f1, f2, dub1, dub2, terms, ret>>

\* cout << "Double forward: " << dub1 << ", Double backward: " << dub2 << endl;
PrintDouble ==
    /\ pc = "print_double"
    /\ out' = Append(out, "Double forward: " \o FormatG(dub1)
                          \o ", Double backward: " \o FormatG(dub2))
    /\ pc' = "print_float_diff"
    /\ UNCHANGED <<i, f1, f2, dub1, dub2, terms, ret>>

\* cout << "Float difference: " << f1 - f2 << endl;
PrintFloatDiff ==
    /\ pc = "print_float_diff"
    /\ out' = Append(out, "Float difference: "
                          \o FormatG(FloatToDouble(FloatDifference(f1, f2))))
    /\ pc' = "print_double_diff"
    /\ UNCHANGED <<i, f1, f2, dub1, dub2, terms, ret>>

\* cout << "Double difference: " << dub1 - dub2 << endl;
PrintDoubleDiff ==
    /\ pc = "print_double_diff"
    /\ out' = Append(out, "Double difference: "
                          \o FormatG(DoubleDifference(dub1, dub2)))
    /\ pc' = "return"
    /\ UNCHANGED <<i, f1, f2, dub1, dub2, terms, ret>>

\* return 0;
Return ==
    /\ pc = "return"
    /\ ret' = <<ReturnValue>>
    /\ pc' = "done"
    /\ UNCHANGED <<i, f1, f2, dub1, dub2, terms, out>>

Next ==
    \/ ForwardEnter
    \/ ForwardF1
    \/ ForwardDub1
    \/ ForwardInc
    \/ ForwardExit
    \/ BackwardEnter
    \/ BackwardF2
    \/ BackwardDub2
    \/ BackwardDec
    \/ BackwardExit
    \/ PrintFloat
    \/ PrintDouble
    \/ PrintFloatDiff
    \/ PrintDoubleDiff
    \/ Return

Spec == Init /\ [][Next]_vars


---------------------------------------------------------------------------
(* Program positions.                                                      *)

ForwardPcs == {"fwd_test", "fwd_f1", "fwd_dub1", "fwd_inc"}

BackwardPcs == {"bwd_test", "bwd_f2", "bwd_dub2", "bwd_dec"}

PrintPcs == {"print_float", "print_double", "print_float_diff", "print_double_diff"}

\* Both loops have completed.
AfterLoops == PrintPcs \cup {"return", "done"}

---------------------------------------------------------------------------
(* Helpers of the properties.                                              *)

Ascending(n) == [k \in 1..n |-> k]

Descending(n) == [k \in 1..n |-> n + 1 - k]

IsPrefix(s, t) == Len(s) <= Len(t) /\ \A k \in 1..Len(s) : s[k] = t[k]

Range(s) == {s[k] : k \in 1..Len(s)}

Min(S) == CHOOSE x \in S : \A y \in S : x <= y

\* |a - b|
Dist(a, b) == IF BLess(a, b) THEN BSub(b, a) ELSE BSub(a, b)

\* 2^e as a magnitude, for e >= -FracBits.
Pow2(e) == ShiftLeft(<<1>>, FracBits + e)

\* Number of bits from the highest to the lowest non-zero bit of a.
SigSpan(a) ==
    IF a = <<>>
    THEN 0
    ELSE BitLength(a) + 1 - Min({k \in 1..BitLength(a) : BitAt(a, k) = 1})

\* x is the double nearest to 1/n: x has at most DoubleBits significant
\* bits and |n * x - 1| is at most n times half a unit in its last place.
NearestDoubleToOneOver(x, n) ==
    /\ ~x.neg
    /\ SigSpan(x.mag) <= DoubleBits
    /\ BitLength(x.mag) >= DoubleBits
    /\ ~BLess(MulInt(ShiftLeft(<<1>>, BitLength(x.mag) - DoubleBits), n),
              ShiftLeft(Dist(MulInt(x.mag, n), Pow2(0)), 1))

\* The sum of floor(2^FracBits / n) for n in lo..hi.
RECURSIVE SumTrunc(_, _)
SumTrunc(lo, hi) ==
    IF lo = hi
    THEN DivPow2(FracBits, lo).q
    ELSE LET mid == (lo + hi) \div 2
         IN  BAdd(SumTrunc(lo, mid), SumTrunc(mid + 1, hi))

\* H(100) with every term truncated to the resolution: from below, within
\* 100 units of H(100) = 1/1 + 1/2 + ... + 1/100.
HarmonicLow == SumTrunc(1, 100)

\* |x - H(100)| < 2^e
WithinOfH(x, e) ==
    /\ ~x.neg
    /\ BLess(BAdd(Dist(x.mag, HarmonicLow), IntLimbs(100)), Pow2(e))

\* The value (hi * 2^28 + lo) * 2^e.
Literal(hi, lo, e) ==
    MkVal(FALSE, ShiftLeft(BAdd(ShiftLeft(IntLimbs(hi), 28), IntLimbs(lo)), FracBits + e))

\* What one run on IEEE-754 hardware leaves and prints.
FinalF1 == Literal(0, 42495, -13)           \* 5.1873779296875
FinalF2 == Literal(0, 5439359, -20)         \* 5.1873769760131836
FinalDub1 == Literal(21757438, 72946243, -50)   \* 5.1873775176396206
FinalDub2 == Literal(5439359, 152454289, -48)   \* 5.1873775176396215

FinalOutput ==
    << "Float forward: 5.18738, Float backward: 5.18738",
       "Double forward: 5.18738, Double backward: 5.18738",
       "Float difference: 9.53674e-07",
       "Double difference: -8.88178e-16" >>

---------------------------------------------------------------------------
(* C1 *)

C1_Inv ==
    /\ IsPrefix(terms.f1, Ascending(100))
    /\ IsPrefix(terms.dub1, Ascending(100))
    /\ IsPrefix(terms.f2, Descending(100))
    /\ IsPrefix(terms.dub2, Descending(100))
    /\ pc \in ForwardPcs => terms.f2 = <<>> /\ terms.dub2 = <<>>
    /\ pc \notin ForwardPcs =>
           terms.f1 = Ascending(100) /\ terms.dub1 = Ascending(100)
    /\ pc \in AfterLoops =>
           terms.f2 = Descending(100) /\ terms.dub2 = Descending(100)

C1_Step ==
    /\ (f1' # f1 \/ terms.f1' # terms.f1) =>
           terms.f1' = Append(terms.f1, i) /\ f1' = FloatAccumulate(f1, i)
    /\ (dub1' # dub1 \/ terms.dub1' # terms.dub1) =>
           terms.dub1' = Append(terms.dub1, i) /\ dub1' = DoubleAccumulate(dub1, i)
    /\ (f2' # f2 \/ terms.f2' # terms.f2) =>
           terms.f2' = Append(terms.f2, i) /\ f2' = FloatAccumulate(f2, i)
    /\ (dub2' # dub2 \/ terms.dub2' # terms.dub2) =>
           terms.dub2' = Append(terms.dub2, i) /\ dub2' = DoubleAccumulate(dub2, i)

\* C1: the forward loop adds 1/n to f1 and dub1 for n = 1, 2, ..., 100 in
\* ascending order and the backward loop adds 1/n to f2 and dub2 for
\* n = 100, 99, ..., 1 in descending order; every accumulator changes only
\* by such an addition, and after its loop has received each n of 1..100
\* exactly once and nothing else.
C1_TermOrder == [](C1_Inv) /\ [][C1_Step]_vars

C1_Witness ==
    /\ pc = "done"
    /\ terms.f1 = Ascending(100)
    /\ terms.dub1 = Ascending(100)
    /\ terms.f2 = Descending(100)
    /\ terms.dub2 = Descending(100)
    /\ terms.f2[1] = 100
    /\ terms.f2[100] = 1

---------------------------------------------------------------------------
(* C2 *)

C2_Inv ==
    /\ SigSpan(f1.mag) <= FloatBits
    /\ SigSpan(f2.mag) <= FloatBits
    /\ SigSpan(dub1.mag) <= DoubleBits
    /\ SigSpan(dub2.mag) <= DoubleBits
    /\ pc \in {"fwd_f1", "fwd_dub1", "bwd_f2", "bwd_dub2"} =>
           NearestDoubleToOneOver(OneOver(i), i)

C2_Step ==
    /\ pc = "fwd_f1" =>
           f1' = RoundVal(RoundVal(ExactAdd(f1, OneOver(i)), DoubleBits), FloatBits)
    /\ pc = "bwd_f2" =>
           f2' = RoundVal(RoundVal(ExactAdd(f2, OneOver(i)), DoubleBits), FloatBits)
    /\ pc = "fwd_dub1" => dub1' = RoundVal(ExactAdd(dub1, OneOver(i)), DoubleBits)
    /\ pc = "bwd_dub2" => dub2' = RoundVal(ExactAdd(dub2, OneOver(i)), DoubleBits)

\* C2 (amended): every term 1.0 / i is the double nearest to 1/i, for all
\* four accumulators.  For f1 and f2 the addition is a double addition
\* whose result is rounded to float when it is stored, so that f1 and f2
\* always hold float values; for dub1 and dub2 the addition is a double
\* addition, and they hold double values.
C2_DoubleTermFloatStore == [](C2_Inv) /\ [][C2_Step]_vars

\* A float accumulation whose result differs from the one a float term and
\* a float addition would give, after earlier terms have been added.
C2_Witness ==
    /\ pc = "bwd_f2"
    /\ Len(terms.f2) >= 1
    /\ FloatAccumulate(f2, i) # FloatAdd(f2, FloatOneOver(i))

\* C2 (as claimed): for f1 and f2 the term 1/n and the addition are in
\* float precision; for dub1 and dub2 they are in double precision.
C2_TermInAccumulatorPrecision ==
    [][ /\ pc = "fwd_f1" => f1' = FloatAdd(f1, FloatOneOver(i))
        /\ pc = "bwd_f2" => f2' = FloatAdd(f2, FloatOneOver(i))
        /\ pc = "fwd_dub1" => dub1' = DoubleAdd(dub1, OneOver(i))
        /\ pc = "bwd_dub2" => dub2' = DoubleAdd(dub2, OneOver(i)) ]_vars

---------------------------------------------------------------------------
(* C3 *)

\* C3: after both loops, f1 differs from f2, and the float difference that
\* is printed is not zero.
C3_FloatSumsDiffer ==
    /\ pc \in AfterLoops => f1 # f2
    /\ Len(out) >= 3 => out[3] # "Float difference: 0"

C3_Witness ==
    /\ pc = "done"
    /\ BLess(f2.mag, f1.mag)
    /\ out[3] = "Float difference: 9.53674e-07"

---------------------------------------------------------------------------
(* C4 *)

\* C4: after both loops, |dub1 - dub2| < |f1 - f2|.
C4_DoubleDifferenceSmaller ==
    pc \in AfterLoops =>
        BLess(ExactAdd(dub1, Negate(dub2)).mag, ExactAdd(f1, Negate(f2)).mag)

C4_Witness ==
    /\ pc = "done"
    /\ dub1 # dub2
    /\ ExactAdd(dub1, Negate(dub2)).mag = Pow2(-50)
    /\ ExactAdd(f1, Negate(f2)).mag = Pow2(-20)

---------------------------------------------------------------------------
(* C5 *)

\* C5: after both loops every accumulator has received exactly the terms
\* 1/n for n in 1..100, and approximates H(100) to within 100 roundings of
\* its precision: f1 and f2 within 2^-15, dub1 and dub2 within 2^-44.
C5_SumsApproximateH100 ==
    pc \in AfterLoops =>
        /\ Range(terms.f1) = 1..100 /\ Len(terms.f1) = 100
        /\ Range(terms.f2) = 1..100 /\ Len(terms.f2) = 100
        /\ Range(terms.dub1) = 1..100 /\ Len(terms.dub1) = 100
        /\ Range(terms.dub2) = 1..100 /\ Len(terms.dub2) = 100
        /\ WithinOfH(f1, -15)
        /\ WithinOfH(f2, -15)
        /\ WithinOfH(dub1, -44)
        /\ WithinOfH(dub2, -44)

\* The float sums are no better than float precision allows.
C5_Witness ==
    /\ pc = "done"
    /\ WithinOfH(f1, -15) /\ ~WithinOfH(f1, -22)
    /\ WithinOfH(f2, -15) /\ ~WithinOfH(f2, -22)
    /\ WithinOfH(dub1, -44)
    /\ WithinOfH(dub2, -44)

---------------------------------------------------------------------------
(* C6 *)

\* The number of steps the program has left: 4 per iteration still to run
\* (test, two additions, increment or decrement), the exits of the loops,
\* the four output statements and the return.
StepsLeft ==
    CASE pc = "fwd_test"         -> 407 + 4 * (101 - i)
      [] pc = "fwd_f1"           -> 406 + 4 * (101 - i)
      [] pc = "fwd_dub1"         -> 405 + 4 * (101 - i)
      [] pc = "fwd_inc"          -> 404 + 4 * (101 - i)
      [] pc = "bwd_test"         -> 6 + 4 * i
      [] pc = "bwd_f2"           -> 5 + 4 * i
      [] pc = "bwd_dub2"         -> 4 + 4 * i
      [] pc = "bwd_dec"          -> 3 + 4 * i
      [] pc = "print_float"      -> 5
      [] pc = "print_double"     -> 4
      [] pc = "print_float_diff" -> 3
      [] pc = "print_double_diff" -> 2
      [] pc = "return"           -> 1
      [] pc = "done"             -> 0

C6_Done ==
    /\ pc = "done"
    /\ ret = <<0>>
    /\ Len(out) = 4
    /\ Len(terms.f1) = 100 /\ Len(terms.dub1) = 100
    /\ Len(terms.f2) = 100 /\ Len(terms.dub2) = 100

C6_Inv ==
    /\ pc \in ForwardPcs \cup BackwardPcs \cup PrintPcs \cup {"return", "done"}
    /\ StepsLeft >= 0
    /\ StepsLeft = 0 <=> pc = "done"
    /\ pc = "done" <=> ret # <<>>
    /\ pc = "done" => C6_Done
    /\ pc \in ForwardPcs => Len(terms.f1) <= 100
    /\ pc \in BackwardPcs => Len(terms.f2) <= 100

\* C6: the program terminates with exit code 0: every step takes it one
\* step closer to the end (the steps left are never negative and decrease
\* by one with every step), the only state with no step left is the one
\* after return 0, which is reached after exactly 100 iterations of each
\* loop and four lines of output, and no other exit code is ever set.
C6_TerminatesWithZero == [](C6_Inv) /\ [][StepsLeft' = StepsLeft - 1]_vars

C6_Witness == C6_Done /\ StepsLeft = 0

---------------------------------------------------------------------------
(* C7 *)

\* C7: at every division 1.0 / i the loop variable is in 1..100, and the
\* loop variables stay in 0..101.
C7_DivisorInRange ==
    /\ pc \in {"fwd_f1", "fwd_dub1", "bwd_f2", "bwd_dub2"} => i \in 1..100
    /\ i \in 0..101

\* The last division, by the smallest divisor, has been made.
C7_Witness == pc = "bwd_dec" /\ i = 1 /\ Len(terms.dub2) = 100

---------------------------------------------------------------------------
(* C8 *)

C8_Inv ==
    /\ pc \in ForwardPcs \cup BackwardPcs => out = <<>>
    /\ Len(out) <= 4
    /\ pc \in {"return", "done"} => Len(out) = 4
    /\ Len(out) >= 1 =>
           out[1] = "Float forward: " \o FormatG(f1)
                        \o ", Float backward: " \o FormatG(f2)
    /\ Len(out) >= 2 =>
           out[2] = "Double forward: " \o FormatG(dub1)
                        \o ", Double backward: " \o FormatG(dub2)
    /\ Len(out) >= 3 =>
           out[3] = "Float difference: " \o FormatG(FloatSub(f1, f2))
    /\ Len(out) >= 4 =>
           out[4] = "Double difference: " \o FormatG(DoubleSub(dub1, dub2))

C8_Step ==
    /\ pc \in AfterLoops => UNCHANGED <<f1, f2, dub1, dub2>>
    /\ out' # out => pc \in PrintPcs /\ Len(out') = Len(out) + 1
                         /\ SubSeq(out', 1, Len(out)) = out

\* C8: nothing is printed before both loops have completed; then exactly
\* four lines are appended in the order float sums, double sums, float
\* difference, double difference; no accumulator changes once the loops
\* have completed; and each difference printed is forward minus backward
\* (f1 - f2, dub1 - dub2) of the sums printed for that precision.
C8_OutputOrder == [](C8_Inv) /\ [][C8_Step]_vars

C8_Witness ==
    /\ pc = "done"
    /\ Len(out) = 4
    /\ out[3] = "Float difference: 9.53674e-07"
    /\ out[4] = "Double difference: -8.88178e-16"

---------------------------------------------------------------------------
(* C9 *)

\* C9: every run starts in the same state and ends with the same values of
\* f1, f2, dub1, dub2, the same four lines of output and exit code 0.
C9_Deterministic ==
    /\ pc = "fwd_test" /\ terms.f1 = <<>> =>
           f1 = Zero /\ f2 = Zero /\ dub1 = Zero /\ dub2 = Zero /\ i = 1
    /\ pc = "done" =>
           /\ f1 = FinalF1
           /\ f2 = FinalF2
           /\ dub1 = FinalDub1
           /\ dub2 = FinalDub2
           /\ out = FinalOutput
           /\ ret = <<0>>

C9_Witness ==
    /\ pc = "done"
    /\ out = FinalOutput
    /\ f1 = FinalF1
    /\ dub2 = FinalDub2

---------------------------------------------------------------------------
(* C10 *)

C10_Inv ==
    /\ pc \in ForwardPcs => f2 = Zero /\ dub2 = Zero

C10_Step ==
    /\ pc = "fwd_f1" => f1' = FloatAccumulate(f1, i) /\ UNCHANGED <<f2, dub1, dub2>>
    /\ pc = "fwd_dub1" => dub1' = DoubleAccumulate(dub1, i) /\ UNCHANGED <<f1, f2, dub2>>
    /\ pc = "bwd_f2" => f2' = FloatAccumulate(f2, i) /\ UNCHANGED <<f1, dub1, dub2>>
    /\ pc = "bwd_dub2" => dub2' = DoubleAccumulate(dub2, i) /\ UNCHANGED <<f1, f2, dub1>>
    /\ pc \notin {"fwd_f1", "fwd_dub1", "bwd_f2", "bwd_dub2"} =>
           UNCHANGED <<f1, f2, dub1, dub2>>
    /\ pc \in BackwardPcs => UNCHANGED <<f1, dub1>>

\* C10: each accumulation reads and writes its own accumulator and the loop
\* variable only; the forward loop leaves f2 and dub2 at 0 and the backward
\* loop leaves f1 and dub1 at their final forward values.
C10_IndependentAccumulators == [](C10_Inv) /\ [][C10_Step]_vars

\* The forward loop has ended with f2 and dub2 untouched.
C10_Witness ==
    /\ pc = "bwd_test"
    /\ i = 100
    /\ f2 = Zero /\ dub2 = Zero
    /\ f1 = FinalF1 /\ dub1 = FinalDub1

=============================================================================
